---------------------------- MODULE Spec2Model ----------------------------
(***************************************************************************)
(* A model of supervised_learning/ridge_regression.py: the RidgeRegression *)
(* estimator (fit by gradient descent with momentum or by the SVD closed   *)
(* form, predict) and the model-selection driver main().                   *)
(*                                                                         *)
(* Floating-point numbers are modelled as exact rationals <<num, den>>     *)
(* with den > 0 in lowest terms.  Vectors are sequences of rationals and   *)
(* matrices are sequences of rows.                                         *)
(***************************************************************************)
EXTENDS Integers, Sequences, FiniteSets, TLC

VARIABLES
    w,                      \* self.w : None or the weight vector
    n_iterations,           \* self.n_iterations
    learning_rate,          \* self.learning_rate
    momentum,               \* self.momentum
    gradient_descent,       \* self.gradient_descent
    regularization_factor,  \* self.regularization_factor
    call,                   \* the most recent call on the estimator and its outcome
    last_fit,               \* the X of the most recent fit call (<<>> before any)
    first_pred,             \* the first successful predict since the last fit
    pc,                     \* main(): position in the driver
    reg_idx,                \* main(): candidates of the grid the for loop has consumed
    lowest_error,           \* main(): lowest_error
    best_reg_factor,        \* main(): best_reg_factor
    mse,                    \* main(): mse
    clf,                    \* main(): the estimator clf was last bound to
    evaluated,              \* candidates whose loop body has run, in order
    held_out,               \* the held-out errors of the folds of the last candidate
    n_splits,               \* calls of k_fold_cross_validation_sets so far
    n_fits,                 \* estimators constructed and fitted so far
    seen,                   \* the least average printed so far and where it first occurred
    printed,                \* the figure on the final console line
    title                   \* the figure in the plot title

est_vars == <<w, n_iterations, learning_rate, momentum, gradient_descent,
              regularization_factor, call, last_fit, first_pred>>
drv_vars == <<pc, reg_idx, lowest_error, best_reg_factor, mse, clf, evaluated,
              held_out, n_splits, n_fits, seen, printed, title>>
vars == <<est_vars, drv_vars>>

----------------------------------------------------------------------------
(* Exact arithmetic standing for the float arithmetic of numpy.            *)

Abs(a) == IF a < 0 THEN -a ELSE a

RECURSIVE GCD(_, _)
GCD(a, b) == IF b = 0 THEN a ELSE GCD(b, a % b)

\* (Operators take intermediate values as parameters rather than naming them
\* in a LET, so that each is computed once.)
Reduce(n, d, g) == IF d < 0 THEN <<(-n) \div g, (-d) \div g>> ELSE <<n \div g, d \div g>>
Rat(n, d) == Reduce(n, d, GCD(Abs(n), Abs(d)))

Zero == Rat(0, 1)
One  == Rat(1, 1)
Half == Rat(1, 2)

RAdd(a, b) == Rat(a[1] * b[2] + b[1] * a[2], a[2] * b[2])
RNeg(a)    == <<-a[1], a[2]>>
RSub(a, b) == RAdd(a, RNeg(b))
RMul(a, b) == Rat(a[1] * b[1], a[2] * b[2])
RInv(a)    == Rat(a[2], a[1])
RLess(a, b) == a[1] * b[2] < b[1] * a[2]

RECURSIVE RSum(_)
RSum(s) == IF s = <<>> THEN Zero ELSE RAdd(s[1], RSum(Tail(s)))

\* The sequence <<f[lo], ..., f[hi]>> with every entry computed once
RECURSIVE TupRange(_, _, _)
TupRange(f, lo, hi) ==
    IF lo > hi THEN <<>>
    ELSE IF lo = hi THEN <<f[lo]>>
    ELSE TupRange(f, lo, (lo + hi) \div 2) \o TupRange(f, (lo + hi) \div 2 + 1, hi)

Tup(f, n) == TupRange(f, 1, n)

ToVec(v) == Tup([i \in 1..Len(v) |-> Rat(v[i], 1)], Len(v))
ToMat(M) == Tup([i \in 1..Len(M) |-> ToVec(M[i])], Len(M))

VAdd(u, v)   == Tup([i \in 1..Len(u) |-> RAdd(u[i], v[i])], Len(u))
VSub(u, v)   == Tup([i \in 1..Len(u) |-> RSub(u[i], v[i])], Len(u))
VScale(c, v) == Tup([i \in 1..Len(v) |-> RMul(c, v[i])], Len(v))
Dot(u, v)    == RSum(Tup([i \in 1..Len(u) |-> RMul(u[i], v[i])], Len(u)))

NRows(M) == Len(M)
NCols(M) == Len(M[1])
Column(M, j) == Tup([i \in 1..NRows(M) |-> M[i][j]], NRows(M))
Transpose(M) == Tup([j \in 1..NCols(M) |-> Column(M, j)], NCols(M))
MatVec(M, v) == Tup([i \in 1..NRows(M) |-> Dot(M[i], v)], NRows(M))
VecMat(v, M) == MatVec(Transpose(M), v)
MatMulT(A, Bt) == Tup([i \in 1..NRows(A) |-> MatVec(Bt, A[i])], NRows(A))
MatMul(A, B) == MatMulT(A, Transpose(B))
UnitRow(i, k, x) == Tup([j \in 1..k |-> IF i = j THEN x ELSE Zero], k)
Identity(k)  == Tup([i \in 1..k |-> UnitRow(i, k, One)], k)
MScale(c, M) == Tup([i \in 1..NRows(M) |-> VScale(c, M[i])], NRows(M))
MAdd(A, B)   == Tup([i \in 1..NRows(A) |-> VAdd(A[i], B[i])], NRows(A))
Diag(s)      == Tup([i \in 1..Len(s) |-> UnitRow(i, Len(s), s[i])], Len(s))

----------------------------------------------------------------------------
(* The estimator.                                                          *)

\* self.w = None.  A fitted w is never empty: it has m + 1 >= 2 entries.
None == <<>>

\* np.insert(X, 0, 1, axis=1)
insert_ones(X) == Tup([i \in 1..NRows(X) |-> <<One>> \o X[i]], NRows(X))

\* np.shape(self.w): () for None, (len,) for a vector
np_shape(a) == IF a = None THEN <<>> ELSE <<Len(a)>>

\* np.zeros(shape): a 0-d array for shape (), a vector for shape (k,)
np_zeros(shape) ==
    IF shape = <<>> THEN [nd |-> 0, val |-> <<Zero>>]
    ELSE [nd |-> 1, val |-> Tup([i \in 1..shape[1] |-> Zero], shape[1])]

\* Do two arrays of at most one dimension broadcast together?
broadcastable(a, v) ==
    \/ a.nd = 0
    \/ Len(a.val) = Len(v)
    \/ Len(a.val) = 1
    \/ Len(v) = 1

\* The entry at i of a vector broadcast to a longer shape
bcast(v, i) == IF Len(v) = 1 THEN v[1] ELSE v[i]

\* momentum * w_gradient + update, when the shapes broadcast
momentum_step(a, update) ==
    [nd |-> 1,
     val |-> Tup([i \in 1..(IF Len(a.val) > Len(update) THEN Len(a.val) ELSE Len(update)) |->
                    RAdd(RMul(momentum, bcast(a.val, i)), bcast(update, i))],
                 IF Len(a.val) > Len(update) THEN Len(a.val) ELSE Len(update))]

\* SquareLoss.gradient(y, X, w) = -(y - X.w).X
square_loss_gradient(y, X, w_) == VecMat(VSub(MatVec(X, w_), y), X)

\* The body of the for loop of fit, `iters` more times, `done` counting the
\* weight updates made.  A shape mismatch in the velocity update raises
\* ValueError out of fit; self.w keeps the value it had.
RECURSIVE gd_loop(_, _, _, _, _, _)
\* self.w -= self.learning_rate * w_gradient, and the rest of the loop
gd_update(X, y, w_, g, iters, done) ==
    IF Len(g.val) # Len(w_)
    THEN [ok |-> FALSE, w |-> w_, updates |-> done]
    ELSE gd_loop(X, y, VSub(w_, VScale(learning_rate, g.val)), g, iters - 1, done + 1)

\* w_gradient = self.momentum * w_gradient + update, and the rest of the loop
gd_velocity(X, y, w_, w_gradient, iters, done, update) ==
    IF ~broadcastable(w_gradient, update)
    THEN [ok |-> FALSE, w |-> w_, updates |-> done]
    ELSE gd_update(X, y, w_, momentum_step(w_gradient, update), iters, done)

gd_loop(X, y, w_, w_gradient, iters, done) ==
    IF iters = 0 THEN [ok |-> TRUE, w |-> w_, updates |-> done]
    ELSE gd_velocity(X, y, w_, w_gradient, iters, done,
                     VAdd(square_loss_gradient(y, X, w_),
                          VScale(regularization_factor, w_)))

\* fit, gradient-descent branch: w0 is the draw of np.random.random
fit_gradient_descent(self_w, X, y, w0) ==
    gd_loop(insert_ones(X), y, w0, np_zeros(np_shape(self_w)), n_iterations, 0)


\* X.T.dot(X) + self.regularization_factor * np.identity(n_features),
\* Xb being X with the ones column inserted
reg_matrix_of(Xb) ==
    MAdd(MatMul(Transpose(Xb), Xb),
         MScale(regularization_factor, Identity(NCols(Xb))))
reg_matrix(X) == reg_matrix_of(insert_ones(X))

\* The orthogonal matrices the decompositions below are searched in: the
\* k x k permutation matrices, column j being the unit vector e_p[j].
PermutationMatrices(k) ==
    {Transpose(Tup([j \in 1..k |-> UnitRow(p[j], k, One)], k)) :
        p \in Permutations(1..k)}

\* Is D a diagonal matrix with non-negative entries in descending order?
IsSigma(D) ==
    /\ \A i, j \in 1..NRows(D) : i # j => D[i][j] = Zero
    /\ \A i \in 1..NRows(D) : ~RLess(D[i][i], Zero)
    /\ \A i \in 1..(NRows(D) - 1) : ~RLess(D[i][i], D[i + 1][i + 1])

diagonal(D) == Tup([i \in 1..NRows(D) |-> D[i][i]], NRows(D))

\* The (U, S, Vh) among the candidates with U^T.A.Vh^T = diag(S), that is
\* A = U.diag(S).Vh: U diagonalises A.A^T and Vh^T diagonalises A^T.A.
svd_among(A, AAt, AtA, SP) ==
    {<<U, diagonal(MatMul(MatMul(Transpose(U), A), Transpose(Vh))), Vh>> :
        <<U, Vh>> \in
            {p \in {U \in SP : IsSigma(MatMul(MatMul(Transpose(U), AAt), U))}
                   \X {Vh \in SP : IsSigma(MatMul(MatMul(Vh, AtA), Transpose(Vh)))} :
                IsSigma(MatMul(MatMul(Transpose(p[1]), A), Transpose(p[2])))}}

\* np.linalg.svd(A): the (U, S, Vh) with A = U.diag(S).Vh, U and Vh
\* orthogonal and S non-negative and descending.  The third component is
\* Vh, the transpose of the matrix of right singular vectors.  The
\* matrices fit passes here are diagonal with non-negative entries (see the
\* design matrices below); for those LAPACK's gesdd applies no reflector
\* and flips no sign, it only sorts the diagonal, so U and Vh are
\* permutation matrices.
svd(A) ==
    svd_among(A, MatMul(A, Transpose(A)), MatMul(Transpose(A), A),
              PermutationMatrices(NRows(A)))

\* np.linalg.pinv of a diagonal matrix: reciprocal of the non-zero entries
pinv(S) ==
    Tup([i \in 1..NRows(S) |->
            UnitRow(i, NCols(S), IF S[i][i] # Zero THEN RInv(S[i][i]) ELSE Zero)],
        NRows(S))

\* fit, least-squares branch, given the triple the decomposition returned:
\* U, S, V = svd(..); S = np.diag(S);
\* X_sq_reg_inv = V.dot(pinv(S)).dot(U.T); w = X_sq_reg_inv.dot(X.T).dot(y)
fit_least_squares(X, y, usv) ==
    MatVec(MatMul(MatMul(MatMul(usv[3], pinv(Diag(usv[2]))), Transpose(usv[1])),
                  Transpose(insert_ones(X))),
           y)

\* Mutant: predict keeps its product in self.w
predict_of_storing(self_w, Xb) ==
    IF self_w = None
    THEN [ok |-> FALSE, err |-> "TypeError", ret |-> <<>>, w |-> self_w]
    ELSE IF NCols(Xb) # Len(self_w)
    THEN [ok |-> FALSE, err |-> "ValueError", ret |-> <<>>, w |-> self_w]
    ELSE [ok |-> TRUE, err |-> "", ret |-> MatVec(Xb, self_w),
          w |-> UnitRow(1, Len(self_w), Dot(Xb[1], self_w))]

\* Mutant: predict multiplies the first row only
predict_of_first_row(self_w, Xb) ==
    IF self_w = None
    THEN [ok |-> FALSE, err |-> "TypeError", ret |-> <<>>, w |-> self_w]
    ELSE IF NCols(Xb) # Len(self_w)
    THEN [ok |-> FALSE, err |-> "ValueError", ret |-> <<>>, w |-> self_w]
    ELSE [ok |-> TRUE, err |-> "", ret |-> <<Dot(Xb[1], self_w)>>, w |-> self_w]

\* predict, Xb being X with the ones column inserted: the outcome of the
\* call and self.w after it.  X.dot(None) raises TypeError, and a w whose
\* length is not the width of Xb raises ValueError (shapes not aligned).
predict_of(self_w, Xb) ==
    IF self_w = None
    THEN [ok |-> FALSE, err |-> "TypeError", ret |-> <<>>, w |-> self_w]
    ELSE IF NCols(Xb) # Len(self_w)
    THEN [ok |-> FALSE, err |-> "ValueError", ret |-> <<>>, w |-> self_w]
    ELSE [ok |-> TRUE, err |-> "", ret |-> MatVec(Xb, self_w), w |-> self_w]

\* Mutant: predict without the ones column
predict_without_bias(self_w, X) == predict_of(self_w, X)

predict(self_w, X) == predict_of(self_w, insert_ones(X))

----------------------------------------------------------------------------
(* Inputs.                                                                 *)

MaxIter == 2

RegFactors    == {Zero, One}
Momenta       == {Zero, Half}
LearningRates == {Zero, Half}

\* np.random.random((k,)): k independent draws from [0, 1)
random_weights(k) == {Tup(f, k) : f \in [1..k -> {Zero, Half}]}

\* Design matrices whose columns, the ones column included, are mutually
\* orthogonal, so that the decomposition of X^T X + reg*I is exact.
XLine  == ToMat(<< <<-2>>, <<2>> >>)
XPlane == ToMat(<< <<2, 1>>, <<-2, 1>>, <<0, -2>> >>)
XFive  == ToMat(<< <<5>> >>)

FitInputs ==
    { [X |-> XLine,  y |-> ToVec(<<-4, 4>>)],
      [X |-> XLine,  y |-> ToVec(<<1, 3>>)],
      [X |-> XPlane, y |-> ToVec(<<3, -1, 1>>)] }

PredictInputs == {XLine, XPlane, XFive}

NoCall == [op |-> "init", X |-> <<>>, y |-> <<>>, ok |-> TRUE, err |-> "",
           ret |-> <<>>, w0 |-> <<>>, updates |-> 0]
NoPred == [set |-> FALSE, X |-> <<>>, ret |-> <<>>, again |-> FALSE]

----------------------------------------------------------------------------
(* The estimator as a state machine.                                       *)

\* Floats of the driver: a finite rational, +inf or NaN
Fin(r) == <<"fin", r>>
Inf    == <<"inf", Zero>>
NaN    == <<"nan", Zero>>

NoClf == [reg_factor |-> None, data |-> "", fitted |-> FALSE]

\* main() not running
DriverIdle ==
    /\ pc = "idle" /\ reg_idx = 0 /\ lowest_error = Inf
    /\ best_reg_factor = None /\ mse = Fin(Zero) /\ clf = NoClf
    /\ evaluated = <<>> /\ held_out = <<>> /\ n_splits = 0 /\ n_fits = 0
    /\ seen = [min |-> NaN, at |-> None] /\ printed = NaN /\ title = NaN

\* RidgeRegression.__init__.  The least-squares branch reads none of
\* n_iterations, momentum and learning_rate, so one value of each is drawn
\* when gradient_descent is false.
Init ==
    /\ w = None
    /\ gradient_descent \in BOOLEAN
    /\ regularization_factor \in RegFactors
    /\ n_iterations \in (IF gradient_descent THEN 0..MaxIter ELSE {MaxIter})
    /\ momentum \in (IF gradient_descent THEN Momenta ELSE {Half})
    /\ learning_rate \in (IF gradient_descent THEN LearningRates ELSE {Half})
    /\ call = NoCall
    /\ last_fit = <<>>
    /\ first_pred = NoPred
    /\ DriverIdle

\* RidgeRegression.fit
Fit(X, y) ==
    /\ IF gradient_descent
       THEN \E w0 \in random_weights(NCols(X) + 1) :
            \E r \in {fit_gradient_descent(w, X, y, w0)} :
                /\ w' = r.w
                /\ call' = [NoCall EXCEPT !.op = "fit", !.X = X, !.y = y,
                              !.ok = r.ok,
                              !.err = IF r.ok THEN "" ELSE "ValueError",
                              !.w0 = w0, !.updates = r.updates]
       ELSE \E usv \in svd(reg_matrix(X)) :
                /\ w' = fit_least_squares(X, y, usv)
                /\ call' = [NoCall EXCEPT !.op = "fit", !.X = X, !.y = y]
    /\ last_fit' = X
    /\ first_pred' = NoPred
    /\ UNCHANGED <<n_iterations, learning_rate, momentum, gradient_descent,
                   regularization_factor, drv_vars>>

\* RidgeRegression.predict
Predict(X) ==
    \E r \in {predict(w, X)} :
        /\ w' = r.w
        /\ call' = [NoCall EXCEPT !.op = "predict", !.X = X, !.ok = r.ok,
                      !.err = r.err, !.ret = r.ret]
        /\ first_pred' = IF r.ok /\ ~first_pred.set
                         THEN [set |-> TRUE, X |-> X, ret |-> r.ret, again |-> FALSE]
                         ELSE IF first_pred.set /\ first_pred.X = X
                         THEN [first_pred EXCEPT !.again = TRUE]
                         ELSE first_pred
        /\ UNCHANGED <<last_fit, n_iterations, learning_rate, momentum,
                       gradient_descent, regularization_factor, drv_vars>>

Next ==
    \/ \E f \in FitInputs : Fit(f.X, f.y)
    \/ \E X \in PredictInputs : Predict(X)

Spec == Init /\ [][Next]_vars

----------------------------------------------------------------------------
(* The driver main().                                                      *)

\* k = 10
k == 10

\* np.arange(0, 0.3, 0.001), in thousandths
GridStart == 0
GridStop  == 300
GridStep  == 1
Thousand  == 1000

\* Float addition, division by a count and the comparison <
fadd(a, b) ==
    IF a[1] = "nan" \/ b[1] = "nan" THEN NaN
    ELSE IF a[1] = "inf" \/ b[1] = "inf" THEN Inf
    ELSE Fin(RAdd(a[2], b[2]))

fdiv(a, n) == IF a[1] = "fin" THEN Fin(RMul(a[2], Rat(1, n))) ELSE a

fless(a, b) ==
    /\ a[1] = "fin"
    /\ \/ b[1] = "inf"
       \/ b[1] = "fin" /\ RLess(a[2], b[2])

\* Mutant: a grid that includes its end point
arange_len_inclusive(start, stop, step) == (stop - start) \div step + 1

\* len(np.arange(start, stop, step)) = ceil((stop - start) / step)
arange_len(start, stop, step) == (stop - start + step - 1) \div step

\* np.arange(start, stop, step), the arguments in thousandths: the values
\* start + i*step for i = 0 .. len - 1
np_arange(start, stop, step) ==
    Tup([i \in 1..arange_len(start, stop, step) |->
            Rat(start + (i - 1) * step, Thousand)],
        arange_len(start, stop, step))

\* The array the for loop iterates over
reg_factors == np_arange(GridStart, GridStop, GridStep)

\* mse = 0; for each fold: mse += _mse
RECURSIVE fold_sum(_, _)
fold_sum(acc, errs) ==
    IF errs = <<>> THEN acc ELSE fold_sum(fadd(acc, errs[1]), Tail(errs))

\* The body of the inner loop over the folds, then mse /= k
cv_error(errs) == fdiv(fold_sum(Fin(Zero), errs), k)

\* "%.2f" % x : x rounded to hundredths, ties to even
round_half_even(n, d) ==
    IF 2 * (n % d) > d \/ (2 * (n % d) = d /\ (n \div d) % 2 = 1)
    THEN (n \div d) + 1
    ELSE n \div d

format_2f(x) == IF x[1] = "fin" THEN Fin(Rat(round_half_even(100 * x[2][1], x[2][2]), 100)) ELSE x

\* What mean_squared_error returned for the k folds of one candidate
Nine(e) == Tup([i \in 1..k |-> IF i < k THEN Fin(One) ELSE e], k)
AllOf(e) == Tup([i \in 1..k |-> e], k)

FoldErrors ==
    {AllOf(Fin(One)), Nine(Fin(Rat(11, 1))), Nine(Inf), Nine(NaN)}

\* The average of each of them, as the loop body computes it
cv_errors == [errs \in FoldErrors |-> cv_error(errs)]

\* What mean_squared_error can return for the final predictions
TestErrors == {Fin(One), Fin(Rat(1, 8)), Inf, NaN}

\* The least average seen and where it first occurred, after one more average
seen_after(sn, avg, cand) ==
    IF avg[1] = "nan" THEN sn
    ELSE IF sn.at = None \/ fless(avg, sn.min) THEN [min |-> avg, at |-> cand]
    ELSE sn

\* main() up to the for loop
InitDriver ==
    /\ w = None /\ gradient_descent = TRUE /\ regularization_factor = Zero
    /\ n_iterations = 0 /\ momentum = Zero /\ learning_rate = Zero
    /\ call = NoCall /\ last_fit = <<>> /\ first_pred = NoPred
    /\ pc = "loop" /\ reg_idx = 0 /\ lowest_error = Inf
    /\ best_reg_factor = None /\ mse = Fin(Zero) /\ clf = NoClf
    /\ evaluated = <<>> /\ held_out = <<>> /\ n_splits = 0 /\ n_fits = 0
    /\ seen = [min |-> NaN, at |-> None] /\ printed = NaN /\ title = NaN

\* Has the for loop candidates left after consuming idx of them?
loop_continues(idx) == idx < Len(reg_factors)

\* if mse < lowest_error: best_reg_factor, lowest_error = regularization_factor, mse
select(best, lowest, cand, avg) ==
    IF fless(avg, lowest) THEN <<cand, avg>> ELSE <<best, lowest>>

\* One pass of the for loop over the candidates
Candidate(cand, errs) ==
    /\ pc = "loop"
    /\ \E avg \in {cv_errors[errs]} :
       \E sel \in {select(best_reg_factor, lowest_error, cand, avg)} :
            /\ mse' = avg
            /\ best_reg_factor' = sel[1]
            /\ lowest_error' = sel[2]
            /\ seen' = seen_after(seen, avg, cand)
    /\ clf' = [reg_factor |-> cand, data |-> "fold", fitted |-> TRUE]
    /\ evaluated' = Append(evaluated, cand)
    /\ held_out' = errs
    /\ n_splits' = n_splits + 1
    /\ n_fits' = n_fits + Len(errs)
    /\ reg_idx' = reg_idx + 1
    /\ pc' = IF loop_continues(reg_idx + 1) THEN "loop" ELSE "final"
    /\ UNCHANGED <<printed, title, est_vars>>

\* The final fit, prediction, console line and plot.  With best_reg_factor
\* None, fit raises TypeError on reg_factor * w and nothing is reported.
Final ==
    /\ pc = "final"
    /\ IF best_reg_factor = None
       THEN /\ clf' = [reg_factor |-> None, data |-> "train", fitted |-> FALSE]
            /\ pc' = "error"
            /\ UNCHANGED <<mse, printed, title, n_fits>>
       ELSE \E e \in TestErrors :
            /\ clf' = [reg_factor |-> best_reg_factor, data |-> "train", fitted |-> TRUE]
            /\ mse' = e
            /\ printed' = lowest_error
            /\ title' = format_2f(e)
            /\ n_fits' = n_fits + 1
            /\ pc' = "done"
    /\ UNCHANGED <<reg_idx, lowest_error, best_reg_factor, evaluated, held_out,
                   n_splits, seen, est_vars>>

NextDriver ==
    \/ \E errs \in FoldErrors :
           /\ loop_continues(reg_idx)
           /\ Candidate(reg_factors[reg_idx + 1], errs)
    \/ Final

SpecDriver == InitDriver /\ [][NextDriver]_vars

----------------------------------------------------------------------------
(* Properties of the estimator, checked under Spec.                        *)

hyperparameters == <<n_iterations, learning_rate, momentum, gradient_descent,
                     regularization_factor>>

\* C1: every fit on well-formed (X, y) completes and leaves w with one
\* entry per column of X plus one, also when the feature count differs from
\* that of the previous fit, in either mode.
FitCompletesWithWidth ==
    call.op = "fit" => (call.ok /\ Len(w) = NCols(call.X) + 1)

\* The determinant, by expansion along the first row
Minor(A, j) ==
    Tup([i \in 1..(NRows(A) - 1) |->
            Tup([c \in 1..(NCols(A) - 1) |-> A[i + 1][IF c < j THEN c ELSE c + 1]],
                NCols(A) - 1)],
        NRows(A) - 1)

RECURSIVE Det(_)
Det(A) ==
    IF NRows(A) = 1 THEN A[1][1]
    ELSE RSum(Tup([j \in 1..NCols(A) |->
                      RMul(IF j % 2 = 1 THEN A[1][j] ELSE RNeg(A[1][j]),
                           Det(Minor(A, j)))],
                  NCols(A)))

\* C2: in closed-form mode fit leaves w with (Xb^T Xb + reg_factor*I) w =
\* Xb^T y, Xb being X with the ones column, whenever that matrix is
\* invertible; on the noiseless line y = 2x with reg_factor 0 this is
\* w = (0, 2).
ClosedFormSolvesNormalEquations ==
    (call.op = "fit" /\ ~gradient_descent /\ Det(reg_matrix(call.X)) # Zero)
        => MatVec(reg_matrix(call.X), w) = VecMat(call.y, insert_ones(call.X))

\* C5: predict fails, returning nothing and leaving w alone, when fit has
\* not been called or X's column count differs from that of the last fit.
PredictFailsUnfittedOrMismatched ==
    [][(call'.op = "predict"
        /\ (last_fit = <<>> \/ NCols(call'.X) # NCols(last_fit)))
          => (~call'.ok /\ call'.ret = <<>> /\ w' = w)]_vars

PredictMismatchSeen ==
    /\ call.op = "predict" /\ ~call.ok
    /\ last_fit # <<>> /\ NCols(call.X) # NCols(last_fit)

\* C6: predict leaves w and every hyperparameter unchanged, so a predict
\* with the X of an earlier predict since the last fit returns the same.
PredictChangesNothing ==
    [][call'.op = "predict"
          => /\ w' = w
             /\ hyperparameters' = hyperparameters
             /\ (call'.ok /\ first_pred.set /\ first_pred.X = call'.X)
                   => call'.ret = first_pred.ret]_vars

PredictRepeated ==
    call.op = "predict" /\ call.ok /\ first_pred.again

\* C7: predict(X) after fit(X, y) returns one entry per row of X.
PredictAfterFitHasOneEntryPerRow ==
    (call.op = "predict" /\ last_fit # <<>> /\ call.X = last_fit)
        => (call.ok /\ Len(call.ret) = NRows(call.X))

PredictAfterFitSeen ==
    /\ call.op = "predict" /\ call.X = last_fit /\ call.ok
    /\ NRows(call.X) = 3 /\ gradient_descent /\ n_iterations > 0

\* Gradient descent with classical momentum from (w_, v), n steps
RECURSIVE momentum_descent(_, _, _, _, _)
momentum_descent_from(Xb, y, w_, v, n) ==
    momentum_descent(Xb, y, VSub(w_, VScale(learning_rate, v)), v, n - 1)

momentum_descent(Xb, y, w_, v, n) ==
    IF n = 0 THEN w_
    ELSE momentum_descent_from(Xb, y, w_,
             VAdd(VScale(momentum, v),
                  VAdd(square_loss_gradient(y, Xb, w_),
                       VScale(regularization_factor, w_))),
             n)

\* C8: in gradient-descent mode fit makes exactly n_iterations updates, and
\* the final w is the momentum step applied n_iterations times to (w0, 0).
GradientDescentRunsAllIterations ==
    (call.op = "fit" /\ gradient_descent)
        => /\ call.updates = n_iterations
           /\ w = momentum_descent(insert_ones(call.X), call.y, call.w0,
                                   VScale(Zero, call.w0), n_iterations)

----------------------------------------------------------------------------
(* Properties of the driver, checked under SpecDriver.                     *)

LoopOver == pc \in {"final", "done", "error"}

\* C3: the loop ends with best_reg_factor the first candidate whose average
\* is the minimum over the grid, and lowest_error is at every point the
\* minimum of the averages so far.
SelectsFirstMinimum ==
    /\ LoopOver => best_reg_factor = seen.at
    /\ seen.at # None => lowest_error = seen.min
    /\ seen.at = None => lowest_error = Inf

\* C4: the final estimator is fitted with the selected strength on the full
\* training set, and the console line and the plot title both report the
\* test-set error of its predictions.
ReportsFinalTestError ==
    pc = "done"
        => /\ clf = [reg_factor |-> best_reg_factor, data |-> "train", fitted |-> TRUE]
           /\ printed = mse
           /\ title = format_2f(mse)

\* The candidates i/1000 for i = 0 .. n - 1
Candidates(n) == [i \in 1..n |-> Rat(i - 1, 1000)]
HalfOpenGrid == Candidates(300)
ClosedGrid   == Candidates(301)

\* The mean of ten errors
MeanOfTen(h) ==
    fdiv(fadd(fadd(fadd(fadd(h[1], h[2]), fadd(h[3], h[4])),
                   fadd(fadd(h[5], h[6]), fadd(h[7], h[8]))),
              fadd(h[9], h[10])), 10)
MeansOfTen == [h \in FoldErrors |-> MeanOfTen(h)]

\* The parts of C9 other than the extent of the grid: the candidates run in
\* grid order, and each pass builds the folds once, fits ten fresh
\* estimators and leaves in mse the mean of the ten held-out errors.
LoopBodyAsClaimed ==
    /\ Len(evaluated) = reg_idx
    /\ n_splits = reg_idx
    /\ pc = "loop" => n_fits = 10 * reg_idx
    /\ reg_idx > 0 => evaluated[reg_idx] = ClosedGrid[reg_idx]
    /\ (pc = "loop" /\ reg_idx > 0)
          => /\ Len(held_out) = 10
             /\ mse = MeansOfTen[held_out]
             /\ clf = [reg_factor |-> evaluated[reg_idx], data |-> "fold",
                       fitted |-> TRUE]

\* C9 as stated: every candidate from 0.000 to 0.300 in steps of 0.001 is
\* evaluated exactly once, in increasing order, each over k = 10 folds.
EvaluatesGridThroughEndPoint ==
    /\ LoopBodyAsClaimed
    /\ LoopOver => evaluated = ClosedGrid

\* C9 as amended: the candidates are 0.000 to 0.299, the end point 0.300
\* excluded; each is evaluated exactly once, in increasing order, each over
\* k = 10 folds.
EvaluatesHalfOpenGrid ==
    /\ LoopBodyAsClaimed
    /\ LoopOver => evaluated = HalfOpenGrid

WholeGridEvaluated ==
    pc = "final" /\ Len(evaluated) = 300 /\ mse = Fin(Rat(2, 1))

\* C10: when the loop is over best_reg_factor is a candidate of the grid,
\* never None, whatever the averages were.
BestRegFactorIsACandidate ==
    LoopOver => (best_reg_factor # None
                 /\ \E i \in 1..Len(evaluated) : evaluated[i] = best_reg_factor)

=============================================================================
